---------------------------- MODULE Spec2Model ----------------------------
(***************************************************************************)
(* A model of src/handlers/handlers.go: the request handlers of the        *)
(* foosball API (users, session credentials, organizations, settings).     *)
(*                                                                         *)
(* The relational store holds three tables (users, organizations,          *)
(* organizationsettings).  Every SQL statement is one atomic step of the   *)
(* store; a handler that sends two statements (CreateOrganization,         *)
(* JoinOrg) is two steps, and other requests may run between them.  Every  *)
(* statement may also fail for a reason of the store's own (connection     *)
(* lost, ...): the `fault` input of the handlers.                          *)
(*                                                                         *)
(* For every handler H, the operator HResult gives what the handler does   *)
(* on given inputs in the current state: the response it sends and the     *)
(* tables it leaves; the action H applies it.                              *)
(***************************************************************************)
EXTENDS Integers, Sequences, FiniteSets, TLC

(***************************************************************************)
(* Bounds of the model.                                                    *)
(***************************************************************************)
MaxOrgs == 2        \* rows the organizations table may hold
MaxInFlight == 1    \* handlers suspended between their two statements
MaxTicks == 1       \* times the wall clock advances
MaxEdits == 1       \* settings updates that change a row

(***************************************************************************)
(* Program constants.                                                      *)
(***************************************************************************)
Hour == 3600                        \* time.Hour, in the seconds of Unix()
StatusOK == 200
StatusCreated == 201
StatusBadRequest == 400
StatusUnauthorized == 401
StatusConflict == 409
StatusInternalServerError == 500

(***************************************************************************)
(* Inputs the requests are drawn from.                                     *)
(***************************************************************************)
Usernames == {"alice", "bob"}
RegPasswords == {"pw1"}
LoginPasswords == {"pw1", "pw2"}
OrgNames == {"Acme"}
TickSeconds == 12 * Hour

\* A nullable column, a Go pointer or an optional JSON field: <<>> or <<v>>.
NULL == <<>>
Some(v) == <<v>>

VARIABLES
    users,      \* table users: rows [userid, username, password, activeorg]
    orgs,       \* table organizations: rows [orgid, name, orgowner, orgsecret]
    settings,   \* table organizationsettings
    held,       \* per user, the credential its client holds: the one the
                \*   last LoginUser or RefreshToken for that user returned
    inflight,   \* handlers between their first and second statement
    now,        \* the wall clock, seconds
    registered, \* history: the RegisterUser requests answered 201
    createFailed, \* history: orgID of the CreateOrganization calls answered
                \*   500 "Failed to create org settings"
    edits       \* history: how many settings updates changed a row

vars == <<users, orgs, settings, held, inflight, now, registered,
          createFailed, edits>>

(***************************************************************************)
(* Conversions between the integer columns and the strings of the Go code. *)
(***************************************************************************)
\* database/sql scanning an integer column into a Go string.
Itoa(n) == ToString(n)
IsInt(s) == \E n \in 0..9 : Itoa(n) = s
\* The number a decimal string stands for; 0 when it stands for none.
Atoi(s) == IF IsInt(s) THEN CHOOSE n \in 0..9 : Itoa(n) = s ELSE 0

(***************************************************************************)
(* utils.HashPassword / utils.VerifyPassword: an opaque capability.        *)
(***************************************************************************)
HashPassword(plain) == <<"hash", plain>>
VerifyPassword(plain, hash) == hash = <<"hash", plain>>

(***************************************************************************)
(* Requests and responses.  c.BodyParser fails on a malformed body.        *)
(***************************************************************************)
UserBodies ==
    [malformed : {FALSE}, username : Usernames \cup {""},
     password : LoginPasswords \cup {""}]
    \cup {[malformed |-> TRUE, username |-> "", password |-> ""]}

RegisterBodies ==
    {b \in UserBodies : b.password \in RegPasswords \cup {""}}

Response(status, body) == [status |-> status, body |-> body]

\* The failure kinds of the interface, by the status the handler answers.
Kind(status) ==
    CASE status = StatusBadRequest -> "ValidationError"
      [] status = StatusUnauthorized -> "AuthError"
      [] status = 404 -> "NotFoundError"
      [] status = StatusConflict -> "ConflictError"
      [] status = StatusInternalServerError -> "InternalError"
      [] OTHER -> "Success"

(***************************************************************************)
(* The store: users.                                                       *)
(***************************************************************************)
\* The schema of users.username: a unique constraint.
UsernameTaken(username) == \E u \in users : u.username = username

\* INSERT INTO users (username, password) VALUES ($1, $2) RETURNING userid
\* under the schema's unique constraint on username.  The result is the
\* error of QueryRow(...).Scan and the table afterwards.
InsertUser(username, hashed, fault) ==
    IF fault
    THEN [err |-> "connection refused", table |-> users, userid |-> 0]
    ELSE IF UsernameTaken(username)
    THEN [err |-> "pq: duplicate key value violates unique constraint",
          table |-> users, userid |-> 0]
    ELSE LET id == Cardinality(users) + 1
         IN  [err |-> "nil",
              table |-> users \cup {[userid |-> id, username |-> username,
                                     password |-> hashed, activeorg |-> NULL]},
              userid |-> id]

\* Mutant: the violation is looked for under another driver's wording.
IsUniqueViolation_OtherWording(err) ==
    err = "UNIQUE constraint failed: users.username"

\* strings.Contains(err.Error(), "unique constraint")
IsUniqueViolation(err) ==
    err = "pq: duplicate key value violates unique constraint"

\* SELECT username, password, userid, activeorg FROM users WHERE username=$1
getUserByUsername(username, fault) ==
    IF fault
    THEN [err |-> "other", user |-> NULL]
    ELSE IF ~ \E u \in users : u.username = username
    THEN [err |-> "ErrNoRows", user |-> NULL]
    ELSE LET u == CHOOSE u \in users : u.username = username
         IN  [err |-> "nil",
              user |-> Some([UserName |-> u.username, Password |-> u.password,
                             UserId |-> Itoa(u.userid),
                             ActiveOrg |-> IF u.activeorg = NULL THEN NULL
                                           ELSE Some(Itoa(u.activeorg[1]))])]

(***************************************************************************)
(* Credentials.  A credential is its claims; only the server signs (HS256) *)
(* so the credentials in circulation are those it issued.  SignedString    *)
(* does not fail for a []byte key.                                         *)
(***************************************************************************)
TokenLifetime == Hour * 24

BaseClaims(username, userid, t) ==
    [username |-> username, userid |-> userid, exp |-> t + TokenLifetime]

WithActiveOrg(claims, activeOrg) ==
    [k \in DOMAIN claims \cup {"activeorg"} |->
        IF k = "activeorg" THEN activeOrg ELSE claims[k]]

HasActiveOrg(claims) == "activeorg" \in DOMAIN claims

\* The client of claims.username receives the credential and keeps it.
Receive(claims) == [held EXCEPT ![claims.username] = Some(claims)]

(***************************************************************************)
(* RegisterUser                                                            *)
(***************************************************************************)
\* lines 140-154
RegisterResponse(ins) ==
    IF ins.err # "nil"
    THEN IF IsUniqueViolation(ins.err)
         THEN Response(StatusConflict, [error |-> "Username already exists"])
         ELSE Response(StatusInternalServerError,
                       [error |-> "Failed to create user"])
    ELSE Response(StatusCreated, [message |-> "User created successfully",
                                  userid |-> ins.userid])

RegisterUserResult(body, fault) ==
    IF body.malformed
    THEN [resp |-> Response(StatusBadRequest, [error |-> "Invalid request body"]),
          users |-> users]
    ELSE IF body.username = "" \/ body.password = ""
    THEN [resp |-> Response(StatusBadRequest,
                            [error |-> "Username and password are required"]),
          users |-> users]
    ELSE LET ins == InsertUser(body.username, HashPassword(body.password), fault)
         IN  [resp |-> RegisterResponse(ins), users |-> ins.table]

RegisterUser(body, fault) ==
    LET out == RegisterUserResult(body, fault)
    IN  /\ users' = out.users
        /\ registered' =
              IF out.resp.status = StatusCreated
              THEN registered \cup {[username |-> body.username,
                                     password |-> body.password,
                                     userid |-> out.resp.body.userid]}
              ELSE registered
        /\ UNCHANGED <<orgs, settings, held, inflight, now, createFailed, edits>>

(***************************************************************************)
(* LoginUser                                                               *)
(***************************************************************************)
\* Mutant: an unknown username gets a message of its own.
LoginLookupFailure_UserNotFound(err) ==
    IF err = "ErrNoRows"
    THEN Response(StatusUnauthorized, [error |-> "User not found"])
    ELSE Response(StatusInternalServerError, [error |-> "Database error"])

\* lines 173-181: the lookup failed.
LoginLookupFailure(err) ==
    IF err = "ErrNoRows"
    THEN Response(StatusUnauthorized, [error |-> "User or password are wrong"])
    ELSE Response(StatusInternalServerError, [error |-> "Database error"])

\* lines 184-188: the password does not verify.
LoginPasswordFailure ==
    Response(StatusUnauthorized, [error |-> "User or password are wrong"])

\* Mutant: the credential lives one hour.
LoginClaims_OneHour(userExist, t) ==
    [BaseClaims(userExist.UserName, userExist.UserId, t) EXCEPT !.exp = t + Hour]

\* Mutant: activeorg is always set, to "" for a user without organization.
LoginClaims_AlwaysActiveOrg(userExist, t) ==
    WithActiveOrg(BaseClaims(userExist.UserName, userExist.UserId, t),
                  IF userExist.ActiveOrg # NULL THEN userExist.ActiveOrg[1]
                  ELSE "")

\* Mutant: the stored active organization never reaches the credential.
LoginClaims_NoActiveOrg(userExist, t) ==
    BaseClaims(userExist.UserName, userExist.UserId, t)

\* lines 190-197
LoginClaims(userExist, t) ==
    IF userExist.ActiveOrg # NULL
    THEN WithActiveOrg(BaseClaims(userExist.UserName, userExist.UserId, t),
                       userExist.ActiveOrg[1])
    ELSE BaseClaims(userExist.UserName, userExist.UserId, t)

\* issued: the credential signed, if any; err: the error of the lookup.
LoginUserResult(body, fault) ==
    IF body.malformed
    THEN [resp |-> Response(StatusBadRequest, [error |-> "Invalid request body"]),
          issued |-> NULL, err |-> "none"]
    ELSE IF body.username = "" \/ body.password = ""
    THEN [resp |-> Response(StatusBadRequest,
                            [error |-> "Username and password are required"]),
          issued |-> NULL, err |-> "none"]
    ELSE LET got == getUserByUsername(body.username, fault)
         IN  IF got.err # "nil"
             THEN [resp |-> LoginLookupFailure(got.err), issued |-> NULL,
                   err |-> got.err]
             ELSE IF ~ VerifyPassword(body.password, got.user[1].Password)
             THEN [resp |-> LoginPasswordFailure, issued |-> NULL,
                   err |-> got.err]
             ELSE LET claims == LoginClaims(got.user[1], now)
                  IN  [resp |-> Response(StatusOK, [token |-> claims]),
                       issued |-> Some(claims), err |-> got.err]

LoginUser(body, fault) ==
    LET out == LoginUserResult(body, fault)
    IN  /\ held' = IF out.issued # NULL THEN Receive(out.issued[1]) ELSE held
        /\ UNCHANGED <<users, orgs, settings, inflight, now, registered,
                       createFailed, edits>>

(***************************************************************************)
(* The authentication middleware in front of the protected routes: it      *)
(* accepts a credential this server signed and that has not expired, and   *)
(* hands its claims to the handler (c.Locals).                             *)
(***************************************************************************)
Authenticated ==
    {held[u][1] : u \in {v \in Usernames : held[v] # NULL /\ now <= held[v][1].exp}}

\* c.Locals("username"), c.Locals("userid"), c.Locals("activeOrg")
Locals(t) ==
    [username |-> t.username, userid |-> t.userid,
     activeOrg |-> IF HasActiveOrg(t) THEN Some(t.activeorg) ELSE NULL]

(***************************************************************************)
(* RefreshToken                                                            *)
(***************************************************************************)
\* Mutant: the active organization is not carried forward.
RefreshClaims_NoActiveOrg(locals, t) ==
    BaseClaims(locals.username, locals.userid, t)

\* lines 30-41
RefreshClaims(locals, t) ==
    IF locals.activeOrg # NULL /\ locals.activeOrg[1] # ""
    THEN WithActiveOrg(BaseClaims(locals.username, locals.userid, t),
                       locals.activeOrg[1])
    ELSE BaseClaims(locals.username, locals.userid, t)

RefreshTokenResult(t) ==
    LET claims == RefreshClaims(Locals(t), now)
    IN  [resp |-> Response(StatusOK, [token |-> claims]), issued |-> Some(claims)]

RefreshToken(t) ==
    LET out == RefreshTokenResult(t)
    IN  /\ held' = Receive(out.issued[1])
        /\ UNCHANGED <<users, orgs, settings, inflight, now, registered,
                       createFailed, edits>>

(***************************************************************************)
(* GetUsers                                                                *)
(***************************************************************************)
GetUsersResult(fault) ==
    IF fault
    THEN Response(StatusInternalServerError, [error |-> "Database query failed"])
    ELSE Response(StatusOK, {[userid |-> u.userid, username |-> u.username] :
                                u \in users})

GetUsers(fault) ==
    /\ GetUsersResult(fault).status \in {StatusOK, StatusInternalServerError}
    /\ UNCHANGED vars

(***************************************************************************)
(* The store: organizations and their settings.                            *)
(***************************************************************************)
\* The join secret the store generates for a new row (a column default).
GenSecret(orgid) == "S" \o Itoa(orgid)

\* INSERT INTO organizations (name, orgowner) VALUES ($1, $2)
\*   RETURNING orgid, orgsecret
InsertOrg(name, userID, fault) ==
    IF fault
    THEN [err |-> "connection refused", table |-> orgs, orgid |-> 0,
          orgsecret |-> ""]
    ELSE LET id == Cardinality(orgs) + 1
         IN  [err |-> "nil",
              table |-> orgs \cup {[orgid |-> id, name |-> name,
                                    orgowner |-> Atoi(userID),
                                    orgsecret |-> GenSecret(id)]},
              orgid |-> id, orgsecret |-> GenSecret(id)]

\* INSERT INTO organizationsettings (orgid, orgowner) VALUES ($1, $2)
InsertOrgSettings(orgID, userID, fault) ==
    IF fault
    THEN [err |-> "connection refused", table |-> settings]
    ELSE [err |-> "nil",
          table |-> settings \cup
              {[orgid |-> orgID, orgowner |-> Atoi(userID),
                maxlobbies |-> NULL, maxgamesperseason |-> NULL,
                team1color |-> NULL, team2color |-> NULL]}]

(***************************************************************************)
(* CreateOrganization: two statements, no transaction around them.         *)
(***************************************************************************)
OrgBodies ==
    [malformed : {FALSE}, name : OrgNames \cup {""}]
    \cup {[malformed |-> TRUE, name |-> ""]}

\* lines 213-241: up to and including the first INSERT.  done: the handler
\* returned; otherwise `pending` is the handler at line 243.
CreateOrganizationResult(t, body, fault) ==
    IF body.malformed
    THEN [done |-> TRUE, orgs |-> orgs, pending |-> NULL,
          resp |-> Response(StatusBadRequest, [error |-> "Invalid request body"])]
    ELSE IF body.name = ""
    THEN [done |-> TRUE, orgs |-> orgs, pending |-> NULL,
          resp |-> Response(StatusBadRequest,
                            [error |-> "Name and orgsecret is required"])]
    ELSE LET userID == t.userid
             ins == InsertOrg(body.name, userID, fault)
         IN  IF ins.err # "nil"
             THEN [done |-> TRUE, orgs |-> orgs, pending |-> NULL,
                   resp |-> Response(StatusInternalServerError,
                                     [error |-> "Failed to create org"])]
             ELSE [done |-> FALSE, orgs |-> ins.table,
                   pending |-> Some([op |-> "CreateOrganization",
                                     userID |-> userID, orgID |-> ins.orgid,
                                     orgSecret |-> ins.orgsecret]),
                   resp |-> NULL]

CreateOrganization(t, body, fault) ==
    LET out == CreateOrganizationResult(t, body, fault)
    IN  /\ ~ out.done => /\ Cardinality(orgs) < MaxOrgs
                         /\ Cardinality(inflight) < MaxInFlight
        /\ orgs' = out.orgs
        /\ inflight' = IF out.done THEN inflight
                       ELSE inflight \cup {out.pending[1]}
        /\ UNCHANGED <<users, settings, held, now, registered, createFailed,
                       edits>>

\* lines 243-256: the second INSERT and the response.
CreateOrganizationSettingsResult(r, fault) ==
    LET ins == InsertOrgSettings(r.orgID, r.userID, fault)
    IN  IF ins.err # "nil"
        THEN [settings |-> ins.table,
              resp |-> Response(StatusInternalServerError,
                                [error |-> "Failed to create org settings"])]
        ELSE [settings |-> ins.table,
              resp |-> Response(StatusCreated,
                                [message |-> "Org created successfully",
                                 orgid |-> r.orgID, orgsecret |-> r.orgSecret])]

\* Mutant: the handler also makes the owner a member of the organization.
CreateOrganizationSettings_JoinsOwner(r, fault) ==
    /\ r.op = "CreateOrganization"
    /\ LET out == CreateOrganizationSettingsResult(r, fault)
       IN  /\ settings' = out.settings
           /\ createFailed' =
                 IF out.resp.status = StatusInternalServerError
                 THEN createFailed \cup {r.orgID} ELSE createFailed
    /\ users' = {IF Itoa(u.userid) = r.userID
                 THEN [u EXCEPT !.activeorg = Some(r.orgID)]
                 ELSE u : u \in users}
    /\ inflight' = inflight \ {r}
    /\ UNCHANGED <<orgs, held, now, registered, edits>>

CreateOrganizationSettings(r, fault) ==
    /\ r.op = "CreateOrganization"
    /\ LET out == CreateOrganizationSettingsResult(r, fault)
       IN  /\ settings' = out.settings
           /\ createFailed' =
                 IF out.resp.status = StatusInternalServerError
                 THEN createFailed \cup {r.orgID} ELSE createFailed
    /\ inflight' = inflight \ {r}
    /\ UNCHANGED <<users, orgs, held, now, registered, edits>>

(***************************************************************************)
(* JoinOrg                                                                 *)
(***************************************************************************)
JoinSecrets == {GenSecret(i) : i \in 1..MaxOrgs} \cup {"bogus"}

JoinBodies ==
    [malformed : {FALSE}, orgsecret : JoinSecrets \cup {""}]
    \cup {[malformed |-> TRUE, orgsecret |-> ""]}

\* c.Status(...).JSON(...) returns the error of writing the body, and
\* writing a fiber.Map of strings does not fail.
JSONWriteError == "nil"

\* SELECT orgid FROM organizations WHERE orgsecret=$1.  On any error of the
\* query the function answers 500 itself and returns what c.JSON returned.
getOrgBySecret(orgsecret, fault) ==
    IF fault \/ ~ \E o \in orgs : o.orgsecret = orgsecret
    THEN [orgID |-> "", err |-> JSONWriteError,
          resp |-> Some(Response(StatusInternalServerError,
                                 [error |-> "No org with that secret"]))]
    ELSE [orgID |-> Itoa((CHOOSE o \in orgs : o.orgsecret = orgsecret).orgid),
          err |-> "nil", resp |-> NULL]

\* Mutant: the column takes any value.
ActiveOrgAccepted_Unconstrained(orgID) == TRUE

\* The schema of users.activeorg: a nullable reference to organizations.
ActiveOrgAccepted(orgID) ==
    IsInt(orgID) /\ \E o \in orgs : o.orgid = Atoi(orgID)

\* Mutant: the UPDATE without its WHERE clause.
UpdateActiveOrg_NoWhere(orgID, userID, fault) ==
    IF fault
    THEN [err |-> "connection refused", table |-> users]
    ELSE IF ~ ActiveOrgAccepted(orgID)
    THEN [err |-> "pq: invalid input", table |-> users]
    ELSE [err |-> "nil",
          table |-> {[u EXCEPT !.activeorg = Some(Atoi(orgID))] : u \in users}]

\* UPDATE users SET activeorg = $1 WHERE userid = $2
UpdateActiveOrg(orgID, userID, fault) ==
    IF fault
    THEN [err |-> "connection refused", table |-> users]
    ELSE IF ~ ActiveOrgAccepted(orgID)
    THEN [err |-> "pq: invalid input", table |-> users]
    ELSE [err |-> "nil",
          table |-> {IF Itoa(u.userid) = userID
                     THEN [u EXCEPT !.activeorg = Some(Atoi(orgID))]
                     ELSE u : u \in users}]

\* lines 278-301: up to the lookup of the organization.  done: the handler
\* returned; otherwise `pending` is the handler at line 303, about to send
\* the UPDATE.
JoinOrgResult(t, body, fault) ==
    IF body.malformed
    THEN [done |-> TRUE, pending |-> NULL,
          resp |-> Response(StatusBadRequest, [error |-> "Invalid request body"])]
    ELSE IF body.orgsecret = ""
    THEN [done |-> TRUE, pending |-> NULL,
          resp |-> Response(StatusBadRequest, [error |-> "Org secret is required"])]
    ELSE LET got == getOrgBySecret(body.orgsecret, fault)
         IN  IF got.err # "nil"
             THEN [done |-> TRUE, pending |-> NULL,
                   resp |-> Response(StatusInternalServerError,
                                     [error |-> "Failed to get org"])]
             ELSE [done |-> FALSE,
                   pending |-> Some([op |-> "JoinOrg", userID |-> t.userid,
                                     orgID |-> got.orgID]),
                   resp |-> NULL]

JoinOrg(t, body, fault) ==
    LET out == JoinOrgResult(t, body, fault)
    IN  /\ ~ out.done => Cardinality(inflight) < MaxInFlight
        /\ inflight' = IF out.done THEN inflight
                       ELSE inflight \cup {out.pending[1]}
        /\ UNCHANGED <<users, orgs, settings, held, now, registered,
                       createFailed, edits>>

\* lines 303-314: the UPDATE and the response.
JoinOrgUpdateResult(r, fault) ==
    LET upd == UpdateActiveOrg(r.orgID, r.userID, fault)
    IN  IF upd.err # "nil"
        THEN [users |-> upd.table,
              resp |-> Response(StatusInternalServerError,
                                [error |-> "Failed to create org settings"])]
        ELSE [users |-> upd.table,
              resp |-> Response(StatusCreated,
                                [message |-> "Added user to organization"])]

JoinOrgUpdate(r, fault) ==
    /\ r.op = "JoinOrg"
    /\ users' = JoinOrgUpdateResult(r, fault).users
    /\ inflight' = inflight \ {r}
    /\ UNCHANGED <<orgs, settings, held, now, registered, createFailed, edits>>

(***************************************************************************)
(* EditOrgSettings                                                         *)
(***************************************************************************)
NoPatch ==
    [malformed |-> FALSE, OrgOwner |-> NULL, MaxLobbies |-> NULL,
     MaxGamesPerSeason |-> NULL, Team1Color |-> NULL, Team2Color |-> NULL]

SettingsBodies ==
    { NoPatch,
      [NoPatch EXCEPT !.malformed = TRUE],
      [NoPatch EXCEPT !.MaxLobbies = Some(5)],
      [NoPatch EXCEPT !.Team1Color = Some("red")],
      [NoPatch EXCEPT !.OrgOwner = Some(2), !.Team2Color = Some("blue")],
      [NoPatch EXCEPT !.MaxGamesPerSeason = Some(10), !.Team1Color = Some("red")] }

\* Mutant: every column is written, an absent field as NULL.
PatchRow_OverwriteNull(row, body) ==
    [row EXCEPT
        !.orgowner = IF body.OrgOwner # NULL THEN body.OrgOwner[1] ELSE @,
        !.maxlobbies = body.MaxLobbies,
        !.maxgamesperseason = body.MaxGamesPerSeason,
        !.team1color = body.Team1Color,
        !.team2color = body.Team2Color]

\* lines 353-386: the SET list built from the fields that are present.
PatchRow(row, body) ==
    [row EXCEPT
        !.orgowner = IF body.OrgOwner # NULL THEN body.OrgOwner[1] ELSE @,
        !.maxlobbies = IF body.MaxLobbies # NULL THEN body.MaxLobbies ELSE @,
        !.maxgamesperseason =
            IF body.MaxGamesPerSeason # NULL THEN body.MaxGamesPerSeason ELSE @,
        !.team1color = IF body.Team1Color # NULL THEN body.Team1Color ELSE @,
        !.team2color = IF body.Team2Color # NULL THEN body.Team2Color ELSE @]

\* Mutant: the UPDATE without its WHERE clause.
UpdateOrgSettings_NoWhere(body, activeOrgStr, fault) ==
    IF fault \/ ~ IsInt(activeOrgStr)
    THEN [err |-> "connection refused", table |-> settings]
    ELSE [err |-> "nil", table |-> {PatchRow(s, body) : s \in settings}]

\* UPDATE organizationsettings SET ... WHERE orgid = $n
UpdateOrgSettings(body, activeOrgStr, fault) ==
    IF fault \/ ~ IsInt(activeOrgStr)
    THEN [err |-> "connection refused", table |-> settings]
    ELSE [err |-> "nil",
          table |-> {IF s.orgid = Atoi(activeOrgStr) THEN PatchRow(s, body)
                     ELSE s : s \in settings}]

\* line 333: the patch the handler takes for empty.
PatchIsEmpty(body) ==
    body.OrgOwner = NULL /\ body.MaxLobbies = NULL /\ body.MaxGamesPerSeason = NULL

\* Mutant: the claims are looked at before the patch.
EditOrgSettingsResult_ClaimsFirst(t, body, fault) ==
    IF body.malformed
    THEN [settings |-> settings, updates |-> 0,
          resp |-> Response(StatusBadRequest, [error |-> "Invalid request body"])]
    ELSE IF ~ HasActiveOrg(t)
    THEN [settings |-> settings, updates |-> 0,
          resp |-> Response(StatusInternalServerError,
                            [error |-> "User not part of any org"])]
    ELSE IF PatchIsEmpty(body)
    THEN [settings |-> settings, updates |-> 0,
          resp |-> Response(StatusBadRequest,
                            [error |-> "At least one option must be passed in"])]
    ELSE LET upd == UpdateOrgSettings(body, t.activeorg, fault)
         IN  IF upd.err # "nil"
             THEN [settings |-> upd.table, updates |-> 1,
                   resp |-> Response(StatusInternalServerError,
                       [error |-> "Failed to update organization settings"])]
             ELSE [settings |-> upd.table, updates |-> 1,
                   resp |-> Response(StatusOK,
                       [message |-> "Organization settings updated successfully"])]

EditOrgSettingsResult(t, body, fault) ==
    IF body.malformed
    THEN [settings |-> settings, updates |-> 0,
          resp |-> Response(StatusBadRequest, [error |-> "Invalid request body"])]
    ELSE IF PatchIsEmpty(body)
    THEN [settings |-> settings, updates |-> 0,
          resp |-> Response(StatusBadRequest,
                            [error |-> "At least one option must be passed in"])]
    ELSE IF ~ HasActiveOrg(t)
    THEN [settings |-> settings, updates |-> 0,
          resp |-> Response(StatusInternalServerError,
                            [error |-> "User not part of any org"])]
    ELSE LET upd == UpdateOrgSettings(body, t.activeorg, fault)
         IN  IF upd.err # "nil"
             THEN [settings |-> upd.table, updates |-> 1,
                   resp |-> Response(StatusInternalServerError,
                       [error |-> "Failed to update organization settings"])]
             ELSE [settings |-> upd.table, updates |-> 1,
                   resp |-> Response(StatusOK,
                       [message |-> "Organization settings updated successfully"])]

\* Mutant: a new owner is written to the organization row as well.
EditOrgSettings_SyncsOwner(t, body, fault) ==
    LET out == EditOrgSettingsResult(t, body, fault)
    IN  /\ out.settings # settings => edits < MaxEdits
        /\ settings' = out.settings
        /\ edits' = IF out.settings # settings THEN edits + 1 ELSE edits
        /\ orgs' = IF out.resp.status = StatusOK /\ body.OrgOwner # NULL
                   THEN {IF Itoa(o.orgid) = t.activeorg
                         THEN [o EXCEPT !.orgowner = body.OrgOwner[1]]
                         ELSE o : o \in orgs}
                   ELSE orgs
        /\ UNCHANGED <<users, held, inflight, now, registered, createFailed>>

EditOrgSettings(t, body, fault) ==
    LET out == EditOrgSettingsResult(t, body, fault)
    IN  /\ out.settings # settings => edits < MaxEdits
        /\ settings' = out.settings
        /\ edits' = IF out.settings # settings THEN edits + 1 ELSE edits
        /\ UNCHANGED <<users, orgs, held, inflight, now, registered,
                       createFailed>>

(***************************************************************************)
(* The clock.                                                              *)
(***************************************************************************)
Tick ==
    /\ now < MaxTicks * TickSeconds
    /\ now' = now + TickSeconds
    /\ UNCHANGED <<users, orgs, settings, held, inflight, registered,
                   createFailed, edits>>

Init ==
    /\ users = {}
    /\ orgs = {}
    /\ settings = {}
    /\ held = [u \in Usernames |-> NULL]
    /\ inflight = {}
    /\ now = 0
    /\ registered = {}
    /\ createFailed = {}
    /\ edits = 0

\* The requests that read or write users, organizations and credentials.
Requests ==
    \/ \E body \in RegisterBodies, fault \in BOOLEAN : RegisterUser(body, fault)
    \/ \E body \in UserBodies, fault \in BOOLEAN : LoginUser(body, fault)
    \/ \E t \in Authenticated : RefreshToken(t)
    \/ \E fault \in BOOLEAN : GetUsers(fault)
    \/ \E t \in Authenticated, body \in OrgBodies, fault \in BOOLEAN :
          CreateOrganization(t, body, fault)
    \/ \E r \in inflight, fault \in BOOLEAN : CreateOrganizationSettings(r, fault)
    \/ \E t \in Authenticated, body \in JoinBodies, fault \in BOOLEAN :
          JoinOrg(t, body, fault)
    \/ \E r \in inflight, fault \in BOOLEAN : JoinOrgUpdate(r, fault)

Next ==
    \/ Requests
    \/ \E t \in Authenticated, body \in SettingsBodies, fault \in BOOLEAN :
          EditOrgSettings(t, body, fault)

\* Every request, the clock standing still.
Spec == Init /\ [][Next]_vars

\* The requests while the clock advances.  EditOrgSettings, which reads and
\* writes the organizationsettings table alone, is left to Spec.
NextClock == Requests \/ Tick

SpecClock == Init /\ [][NextClock]_vars

(***************************************************************************)
(* Helpers of the properties.                                              *)
(***************************************************************************)
Rows(name) == {u \in users : u.username = name}

UserBody(name, password) ==
    [malformed |-> FALSE, username |-> name, password |-> password]

PendingCreates == {r.orgID : r \in {q \in inflight : q.op = "CreateOrganization"}}

SettingsOf(orgid) == {s \in settings : s.orgid = orgid}

(***************************************************************************)
(* C1.  CreateOrganization is atomic: once a call has been answered 500    *)
(* because its settings insert failed, no organization row produced by     *)
(* that call exists, in that state and in every later one.                 *)
(***************************************************************************)
C1_CreateIsAtomic ==
    \A id \in createFailed : ~ \E o \in orgs : o.orgid = id

(***************************************************************************)
(* C2.  Every organization row whose CreateOrganization call has returned  *)
(* has exactly one settings row, and every settings row has its            *)
(* organization row.                                                       *)
(***************************************************************************)
C2_OneSettingsRowPerOrg ==
    /\ \A o \in orgs :
          o.orgid \notin PendingCreates => Cardinality(SettingsOf(o.orgid)) = 1
    /\ \A s \in settings : \E o \in orgs : o.orgid = s.orgid

(***************************************************************************)
(* C3.  Of the RegisterUser requests for one username (non-empty password, *)
(* the INSERT reaching the store), exactly one is answered 201 with the    *)
(* id of the row it made and every other one is answered 409; the table    *)
(* holds one row for the username.                                         *)
(***************************************************************************)
C3_RegisterOneWinner ==
    \A name \in Usernames :
        /\ Cardinality(Rows(name)) <= 1
        /\ Cardinality({r \in registered : r.username = name})
              = Cardinality(Rows(name))
        /\ \A p \in RegPasswords :
              LET out == RegisterUserResult(UserBody(name, p), FALSE)
              IN  IF Rows(name) # {}
                  THEN /\ Kind(out.resp.status) = "ConflictError"
                       /\ out.users = users
                  ELSE /\ out.resp.status = StatusCreated
                       /\ \E u \in out.users \ users :
                             /\ out.users = users \cup {u}
                             /\ u.username = name
                             /\ u.userid = out.resp.body.userid
                             /\ \A v \in users : v.userid # u.userid

\* A username is taken, so that a further request for it is the loser.
C3_Witness ==
    \E r \in registered :
        RegisterUserResult(UserBody(r.username, r.password), FALSE).resp.status
            = StatusConflict

(***************************************************************************)
(* C4.  LoginUser with non-empty inputs answers an unknown username and a  *)
(* password that does not verify with one and the same response, an        *)
(* AuthError, and issues no credential in either case.                     *)
(***************************************************************************)
LoginRejects(body) ==
    /\ ~ body.malformed /\ body.username # "" /\ body.password # ""
    /\ \/ Rows(body.username) = {}
       \/ \E u \in Rows(body.username) : ~ VerifyPassword(body.password, u.password)

C4_LoginFailuresAlike ==
    \A b1 \in UserBodies, b2 \in UserBodies :
        LoginRejects(b1) /\ LoginRejects(b2) =>
            LET o1 == LoginUserResult(b1, FALSE)
                o2 == LoginUserResult(b2, FALSE)
            IN  /\ o1.resp = o2.resp
                /\ Kind(o1.resp.status) = "AuthError"
                /\ o1.issued = NULL

\* One user is registered and the other is not: both cases exist.
C4_Witness ==
    \E b1 \in UserBodies, b2 \in UserBodies :
        /\ LoginRejects(b1) /\ Rows(b1.username) = {}
        /\ LoginRejects(b2) /\ Rows(b2.username) # {}
        /\ \E u \in Usernames : held[u] # NULL

(***************************************************************************)
(* C5.  Once RegisterUser(u, p) was answered 201 with user id i, LoginUser *)
(* (u, p), its SELECT reaching the store, answers 200 with a credential    *)
(* whose claims are username = u, userid = the decimal string of i, and    *)
(* exp = the time of issuance plus 24 hours.                               *)
(***************************************************************************)
C5_LoginAfterRegister ==
    \A r \in registered :
        LET out == LoginUserResult(UserBody(r.username, r.password), FALSE)
        IN  /\ out.resp.status = StatusOK
            /\ out.issued # NULL
            /\ out.resp.body.token = out.issued[1]
            /\ out.issued[1].username = r.username
            /\ out.issued[1].userid = Itoa(r.userid)
            /\ out.issued[1].exp = now + 24 * 3600

\* Both users registered, one joined an organization, the clock advanced.
C5_Witness ==
    /\ Cardinality(registered) = 2
    /\ \E u \in users : u.activeorg # NULL
    /\ now > 0
    /\ \E u \in Usernames : held[u] # NULL /\ held[u][1].exp > now + 12 * 3600

(***************************************************************************)
(* C6.  A credential LoginUser issues carries activeorg iff the stored     *)
(* user has an active organization; one RefreshToken issues carries it iff *)
(* the incoming claims hold a non-empty one; no credential issued carries  *)
(* an empty activeorg.                                                     *)
(***************************************************************************)
C6_ActiveOrgIffContext ==
    /\ \A body \in UserBodies :
          LET out == LoginUserResult(body, FALSE)
          IN  out.issued # NULL =>
                \A u \in Rows(body.username) :
                    /\ HasActiveOrg(out.issued[1]) <=> u.activeorg # NULL
                    /\ HasActiveOrg(out.issued[1]) =>
                          /\ out.issued[1].activeorg # ""
                          /\ out.issued[1].activeorg = Itoa(u.activeorg[1])
    /\ \A t \in Authenticated :
          LET c == RefreshTokenResult(t).issued[1]
          IN  /\ HasActiveOrg(c) <=> (HasActiveOrg(t) /\ t.activeorg # "")
              /\ HasActiveOrg(c) => c.activeorg # ""
    /\ \A u \in Usernames :
          held[u] # NULL /\ HasActiveOrg(held[u][1]) => held[u][1].activeorg # ""

\* One credential in circulation carries activeorg, another does not.
C6_Witness ==
    /\ \E u \in Usernames : held[u] # NULL /\ HasActiveOrg(held[u][1])
    /\ \E u \in Usernames : held[u] # NULL /\ ~ HasActiveOrg(held[u][1])

(***************************************************************************)
(* C7.  RefreshToken answers 200 with a credential made of the incoming    *)
(* claims alone: the same username and userid, the same activeorg or none, *)
(* and exp = the time of the refresh plus 24 hours; the step changes no    *)
(* table.                                                                  *)
(***************************************************************************)
Refreshed(t) ==
    IF HasActiveOrg(t)
    THEN [username |-> t.username, userid |-> t.userid,
          activeorg |-> t.activeorg, exp |-> now + 24 * 3600]
    ELSE [username |-> t.username, userid |-> t.userid, exp |-> now + 24 * 3600]

C7_RefreshCarriesForward ==
    /\ [](\A t \in Authenticated :
            /\ RefreshTokenResult(t).resp = Response(StatusOK, [token |-> Refreshed(t)])
            /\ RefreshTokenResult(t).issued = Some(Refreshed(t)))
    /\ [][\A t \in Authenticated :
            RefreshToken(t) => UNCHANGED <<users, orgs, settings>>]_vars

\* A credential without activeorg, issued earlier, of a user whose stored
\* active organization is set: the store and the claims differ.
C7_Witness ==
    \E u \in users :
        /\ u.activeorg # NULL
        /\ held[u.username] # NULL
        /\ ~ HasActiveOrg(held[u.username][1])
        /\ held[u.username][1].exp < now + 24 * 3600
        /\ held[u.username][1] \in Authenticated

(***************************************************************************)
(* C8.  JoinOrg with a non-empty secret that matches no organization       *)
(* returns a NotFoundError without sending the UPDATE of users.            *)
(***************************************************************************)
C8_JoinUnknownSecretNotFound ==
    \A t \in Authenticated, body \in JoinBodies :
        (/\ ~ body.malformed
         /\ body.orgsecret # ""
         /\ ~ \E o \in orgs : o.orgsecret = body.orgsecret)
        => LET out == JoinOrgResult(t, body, FALSE)
           IN  /\ out.done
               /\ Kind(out.resp.status) = "NotFoundError"

(***************************************************************************)
(* C9.  JoinOrg with a secret that resolves to organization O sends the    *)
(* UPDATE for O; the UPDATE sets the caller's activeorg to O and leaves    *)
(* every other user row as it was; when the caller's activeorg is O        *)
(* already, it leaves every table as it was.                               *)
(***************************************************************************)
JoinSets(r) ==
    /\ \A u \in users :
          IF Itoa(u.userid) = r.userID
          THEN [u EXCEPT !.activeorg = Some(Atoi(r.orgID))] \in users'
          ELSE u \in users'
    /\ Cardinality(users') = Cardinality(users)
    /\ (\A u \in users : Itoa(u.userid) = r.userID =>
                            u.activeorg = Some(Atoi(r.orgID)))
          => UNCHANGED <<users, orgs, settings, held>>

C9_JoinSetsActiveOrg ==
    /\ [](\A t \in Authenticated, o \in orgs :
            LET out == JoinOrgResult(t, [malformed |-> FALSE,
                                         orgsecret |-> o.orgsecret], FALSE)
            IN  /\ ~ out.done
                /\ out.pending = Some([op |-> "JoinOrg", userID |-> t.userid,
                                       orgID |-> Itoa(o.orgid)]))
    /\ [][\A r \in inflight :
            r.op = "JoinOrg" /\ r.orgID # "" /\ JoinOrgUpdate(r, FALSE)
                => JoinSets(r)]_vars

\* The same Join once more: its UPDATE is about to run for a caller whose
\* activeorg is that organization already, beside another member.
C9_Witness ==
    \E r \in inflight :
        /\ r.op = "JoinOrg"
        /\ \E u \in users : /\ Itoa(u.userid) = r.userID
                            /\ u.activeorg = Some(Atoi(r.orgID))
        /\ \E u \in users : Itoa(u.userid) # r.userID /\ u.activeorg # NULL

(***************************************************************************)
(* C10.  Every user's activeorg is unset or the id of a row of the         *)
(* organizations table.                                                    *)
(***************************************************************************)
C10_ActiveOrgExists ==
    \A u \in users :
        u.activeorg = NULL \/ \E o \in orgs : o.orgid = u.activeorg[1]

\* A member of an organization, after a failed create and an edit.
C10_Witness ==
    /\ \E u \in users : u.activeorg # NULL
    /\ createFailed # {}
    /\ edits > 0


(***************************************************************************)
(* Helpers of the properties about EditOrgSettings.                        *)
(***************************************************************************)
\* At least one of the five fields of the patch is present.
AnyPresent(body) ==
    \/ body.OrgOwner # NULL \/ body.MaxLobbies # NULL
    \/ body.MaxGamesPerSeason # NULL
    \/ body.Team1Color # NULL \/ body.Team2Color # NULL

\* Row n holds, in every column whose field is absent from the patch, what
\* row s holds.
KeepsAbsent(s, n, body) ==
    /\ n.orgid = s.orgid
    /\ body.OrgOwner = NULL => n.orgowner = s.orgowner
    /\ body.MaxLobbies = NULL => n.maxlobbies = s.maxlobbies
    /\ body.MaxGamesPerSeason = NULL => n.maxgamesperseason = s.maxgamesperseason
    /\ body.Team1Color = NULL => n.team1color = s.team1color
    /\ body.Team2Color = NULL => n.team2color = s.team2color

\* Row n holds, in every column whose field is present, the patch's value.
TakesPresent(n, body) ==
    /\ body.OrgOwner # NULL => n.orgowner = body.OrgOwner[1]
    /\ body.MaxLobbies # NULL => n.maxlobbies = body.MaxLobbies
    /\ body.MaxGamesPerSeason # NULL => n.maxgamesperseason = body.MaxGamesPerSeason
    /\ body.Team1Color # NULL => n.team1color = body.Team1Color
    /\ body.Team2Color # NULL => n.team2color = body.Team2Color

(***************************************************************************)
(* C11.  An EditOrgSettings answered 200 is a partial update: the caller's *)
(* credential carries activeorg; the settings row of that organization     *)
(* keeps, in every column whose field is absent from the patch, its prior  *)
(* value; every other settings row is as before and no row is added or     *)
(* removed; no step that changes users or organizations is a step of       *)
(* EditOrgSettings.                                                        *)
(***************************************************************************)
C11_EditIsPartialUpdate ==
    /\ [](\A t \in Authenticated, body \in SettingsBodies, fault \in BOOLEAN :
            LET out == EditOrgSettingsResult(t, body, fault)
            IN  out.resp.status = StatusOK =>
                  /\ HasActiveOrg(t)
                  /\ Cardinality(out.settings) = Cardinality(settings)
                  /\ \A s \in settings :
                        IF Itoa(s.orgid) = t.activeorg
                        THEN \E n \in out.settings : KeepsAbsent(s, n, body)
                        ELSE s \in out.settings)
    /\ [][(users' # users \/ orgs' # orgs) =>
            ~ \E t \in Authenticated, body \in SettingsBodies, fault \in BOOLEAN :
                EditOrgSettings(t, body, fault)]_vars

\* After one edit: two settings rows, and a caller whose organization's row
\* holds a value that a further patch without that field has to keep.
C11_Witness ==
    /\ edits > 0
    /\ Cardinality(settings) = 2
    /\ \E t \in Authenticated, s \in settings :
          /\ HasActiveOrg(t) /\ Itoa(s.orgid) = t.activeorg
          /\ s.maxlobbies # NULL

(***************************************************************************)
(* C12.  EditOrgSettings with a patch in which all five fields are absent  *)
(* is answered with a ValidationError whatever the caller's claims and     *)
(* whether or not the store is failing; it sends no UPDATE and leaves the  *)
(* settings table as it was.                                               *)
(***************************************************************************)
C12_EmptyPatchRejected ==
    \A t \in Authenticated, fault \in BOOLEAN :
        LET out == EditOrgSettingsResult(t, NoPatch, fault)
        IN  /\ Kind(out.resp.status) = "ValidationError"
            /\ out.updates = 0
            /\ out.settings = settings

\* A caller with activeorg whose organization has its settings row, and a
\* caller without activeorg.
C12_Witness ==
    /\ \E t \in Authenticated, s \in settings :
          HasActiveOrg(t) /\ Itoa(s.orgid) = t.activeorg
    /\ \E t \in Authenticated : ~ HasActiveOrg(t)

(***************************************************************************)
(* C13.  EditOrgSettings with at least one field present, from a caller    *)
(* whose claims carry no activeorg or an empty one, is answered with an    *)
(* AuthError and sends no UPDATE.                                          *)
(***************************************************************************)
C13_NoActiveOrgIsAuthError ==
    \A t \in Authenticated, body \in SettingsBodies :
        (/\ ~ body.malformed
         /\ AnyPresent(body)
         /\ (~ HasActiveOrg(t) \/ t.activeorg = ""))
        => LET out == EditOrgSettingsResult(t, body, FALSE)
           IN  /\ Kind(out.resp.status) = "AuthError"
               /\ out.updates = 0

(***************************************************************************)
(* C14, as claimed.  Whenever a settings row of organization O is changed, *)
(* the step is an EditOrgSettings of a caller whose row in the users       *)
(* table holds activeorg = O at that moment.                               *)
(***************************************************************************)
C14_EditByStoredMember ==
    [][\A s \in settings : s \notin settings' =>
          \E t \in Authenticated, body \in SettingsBodies, fault \in BOOLEAN :
              /\ EditOrgSettings(t, body, fault)
              /\ \E u \in users : /\ Itoa(u.userid) = t.userid
                                  /\ u.activeorg = Some(s.orgid)]_vars

(***************************************************************************)
(* C14, amended.  Whenever a settings row of organization O is changed,    *)
(* the step is an EditOrgSettings of a caller whose presented credential   *)
(* carries the claim activeorg = O.                                        *)
(***************************************************************************)
C14_EditByClaimedMember ==
    [][\A s \in settings : s \notin settings' =>
          \E t \in Authenticated, body \in SettingsBodies, fault \in BOOLEAN :
              /\ EditOrgSettings(t, body, fault)
              /\ HasActiveOrg(t)
              /\ t.activeorg = Itoa(s.orgid)]_vars

\* A settings row has been edited; a user holds a credential naming that
\* organization while the users table names another one for that user.
C14_Witness ==
    /\ edits > 0
    /\ \E u \in users, s \in settings :
          /\ held[u.username] # NULL
          /\ held[u.username][1] \in Authenticated
          /\ HasActiveOrg(held[u.username][1])
          /\ held[u.username][1].activeorg = Itoa(s.orgid)
          /\ u.activeorg # NULL
          /\ u.activeorg # Some(s.orgid)
          /\ \/ s.maxlobbies # NULL \/ s.maxgamesperseason # NULL
             \/ s.team1color # NULL \/ s.team2color # NULL

(***************************************************************************)
(* Helpers of the properties about the credential after JoinOrg.           *)
(***************************************************************************)
\* JoinOrg's answers carry no credential.
JoinIssuesNone ==
    \A r \in inflight :
        r.op = "JoinOrg" =>
            \A fault \in BOOLEAN :
                "token" \notin DOMAIN JoinOrgUpdateResult(r, fault).resp.body

\* The credential LoginUser returns to a member carries the stored activeorg.
LoginCarriesStored ==
    \A u \in users, reg \in registered :
        u.activeorg # NULL /\ reg.username = u.username =>
            LET out == LoginUserResult(UserBody(reg.username, reg.password), FALSE)
            IN  /\ out.issued # NULL
                /\ HasActiveOrg(out.issued[1])
                /\ out.issued[1].activeorg = Itoa(u.activeorg[1])

(***************************************************************************)
(* C15, as claimed.  After a JoinOrg to organization O (the users table    *)
(* holds activeorg = O for the caller), JoinOrg's answer carries no        *)
(* credential, and the credential the caller's next LoginUser returns and  *)
(* the one its next RefreshToken returns carry activeorg = O.              *)
(***************************************************************************)
C15_NextLoginOrRefreshCarries ==
    /\ JoinIssuesNone
    /\ LoginCarriesStored
    /\ \A u \in users :
          (/\ u.activeorg # NULL
           /\ held[u.username] # NULL
           /\ held[u.username][1] \in Authenticated)
          => LET c == RefreshTokenResult(held[u.username][1]).issued[1]
             IN  HasActiveOrg(c) /\ c.activeorg = Itoa(u.activeorg[1])

(***************************************************************************)
(* C15, amended.  JoinOrg's answer carries no credential and no step of    *)
(* JoinOrg changes the credential a client holds; after a JoinOrg to O the *)
(* credential the caller's next LoginUser returns carries activeorg = O;   *)
(* the one RefreshToken returns carries the activeorg of the credential    *)
(* presented, none when that one carries none.                             *)
(***************************************************************************)
C15_NextLoginCarries ==
    /\ [](/\ JoinIssuesNone
          /\ LoginCarriesStored
          /\ \A t \in Authenticated :
                LET c == RefreshTokenResult(t).issued[1]
                IN  /\ HasActiveOrg(c) <=> HasActiveOrg(t)
                    /\ HasActiveOrg(c) => c.activeorg = t.activeorg)
    /\ [][held' # held =>
            /\ ~ \E r \in inflight, fault \in BOOLEAN : JoinOrgUpdate(r, fault)
            /\ ~ \E t \in Authenticated, body \in JoinBodies, fault \in BOOLEAN :
                    JoinOrg(t, body, fault)]_vars

\* One member still holds the credential it joined with, another holds one
\* a LoginUser after its JoinOrg returned.
C15_Witness ==
    \E u \in users, v \in users :
        /\ u.activeorg # NULL /\ held[u.username] # NULL
        /\ ~ HasActiveOrg(held[u.username][1])
        /\ v.activeorg # NULL /\ held[v.username] # NULL
        /\ HasActiveOrg(held[v.username][1])
        /\ held[v.username][1].activeorg = Itoa(v.activeorg[1])

(***************************************************************************)
(* C16.  For every patch with at least one of the five fields present,     *)
(* from a caller whose claims carry a non-empty activeorg and with no      *)
(* failure of the store, EditOrgSettings does not answer with a            *)
(* ValidationError, and the settings row of that organization holds the    *)
(* patch's value in the column of every present field.                     *)
(***************************************************************************)
C16_PresenceDecidesWrite ==
    \A t \in Authenticated, body \in SettingsBodies :
        (/\ ~ body.malformed
         /\ AnyPresent(body)
         /\ HasActiveOrg(t) /\ t.activeorg # "")
        => LET out == EditOrgSettingsResult(t, body, FALSE)
           IN  /\ Kind(out.resp.status) # "ValidationError"
               /\ \A n \in out.settings :
                     Itoa(n.orgid) = t.activeorg => TakesPresent(n, body)

(***************************************************************************)
(* C17.  A user whose credential carries no activeorg (it was issued       *)
(* before the user joined any organization) and who has joined             *)
(* organization O with it calls EditOrgSettings with that credential and a *)
(* patch with at least one field present, the store not failing: the       *)
(* answer is 200 and O's settings row holds the patch's values.            *)
(***************************************************************************)
C17_EditWithJoiningCredential ==
    \A u \in users :
        (/\ u.activeorg # NULL
         /\ held[u.username] # NULL
         /\ held[u.username][1] \in Authenticated
         /\ ~ HasActiveOrg(held[u.username][1]))
        => \A body \in SettingsBodies :
              ~ body.malformed /\ AnyPresent(body) =>
                  LET out == EditOrgSettingsResult(held[u.username][1], body, FALSE)
                  IN  /\ out.resp.status = StatusOK
                      /\ \A n \in out.settings :
                            n.orgid = u.activeorg[1] => TakesPresent(n, body)

(***************************************************************************)
(* C18.  No step of CreateOrganization, answered 201 or not, changes the   *)
(* users table; the credential LoginUser returns for a registered user     *)
(* right after the step is the one it would have returned right before.    *)
(***************************************************************************)
LoginOf(reg) == LoginUserResult(UserBody(reg.username, reg.password), FALSE)

C18_CreateKeepsActiveOrg ==
    [][(/\ orgs' # orgs \/ inflight' # inflight \/ users' # users
        /\ \/ \E t \in Authenticated, body \in OrgBodies, fault \in BOOLEAN :
                 CreateOrganization(t, body, fault)
           \/ \E r \in inflight, fault \in BOOLEAN :
                 CreateOrganizationSettings(r, fault))
       => /\ users' = users
          /\ \A reg \in registered : LoginOf(reg)' = LoginOf(reg)]_vars

\* Two organizations whose creation has finished: the owner of one belongs
\* to no organization, the owner of the other is a member of the first.
C18_Witness ==
    \E o1 \in orgs, o2 \in orgs, u \in users, v \in users :
        /\ o1.orgowner = u.userid /\ u.activeorg = NULL
        /\ o2.orgowner = v.userid /\ v.activeorg = Some(o1.orgid)
        /\ o1.orgid # o2.orgid
        /\ inflight = {}
        /\ held[u.username] # NULL /\ ~ HasActiveOrg(held[u.username][1])

(***************************************************************************)
(* C19.  A row of the organizations table, once there, is never changed    *)
(* or removed; a row is added by a step of CreateOrganization alone, with  *)
(* the caller as its owner.  So the owner of an organization is the user   *)
(* who created it, whatever owner its settings row names.                  *)
(***************************************************************************)
C19_OrgRowImmutable ==
    /\ [][\A o \in orgs : o \in orgs']_vars
    /\ [][orgs' # orgs =>
            \E t \in Authenticated, body \in OrgBodies, fault \in BOOLEAN :
                /\ CreateOrganization(t, body, fault)
                /\ \A o \in orgs' \ orgs : o.orgowner = Atoi(t.userid)]_vars

\* An edit has given a settings row another owner than its organization's.
C19_Witness ==
    \E o \in orgs, s \in settings :
        /\ s.orgid = o.orgid
        /\ s.orgowner # o.orgowner
        /\ edits > 0

=============================================================================
